---- MODULE Spec2Model ----
(***************************************************************************)
(* pygenprop results layer (src/pygenprop/results.py): the per-sample      *)
(* assignment caches, their synchronisation against the property tree,     *)
(* the bootstrap of every property and step result, the combined result    *)
(* tables of GenomePropertiesResults and its lookups, filters and export.  *)
(* pygenprop.assign and pygenprop.tree are imported by results.py; their   *)
(* behaviour is taken from the specification's sections 3, 4.1, 4.2 and 7. *)
(***************************************************************************)
EXTENDS Integers, Sequences, FiniteSets, TLC

VARIABLES tree, heap, inputs, obj, ret

vars == <<tree, heap, inputs, obj, ret>>

(* ------------------------------ bounds -------------------------------- *)

\* The largest number of sample caches handed to the constructor.
MaxSamples == 2

\* The largest number of AssignmentCache objects alive at once.
MaxHeap == 2

\* The interpreter's recursion limit, scaled down (depth of nested calls).
RecursionLimit == 5

(* ---------------------------- result states --------------------------- *)

Results == {"YES", "NO", "PARTIAL"}

\* The missing-value marker pandas puts in a cell no input table supplies.
NaN == "NaN"

EmptyMap == [x \in {} |-> "NO"]

Restrict(f, S) == [x \in S |-> f[x]]

Range(s) == {s[i] : i \in DOMAIN s}

(* ---------------------------- property tree --------------------------- *)

Step(number, required, requirement, children) ==
    [number |-> number, name |-> "step", required |-> required,
     requirement |-> requirement, genome_properties |-> children]

Leaf(number, required) == Step(number, required, "AND", <<>>)

Property(name, steps) == [name |-> name, steps |-> steps]

\* One property with three required leaf steps.
TreeFlat ==
    [root |-> "A",
     properties |-> ("A" :> Property("a", <<Leaf(1, TRUE), Leaf(2, TRUE), Leaf(3, TRUE)>>))]

\* A root over two child properties, with one informational leaf step.
TreeNested ==
    [root |-> "A",
     properties |->
        ("A" :> Property("a", <<Step(1, TRUE, "AND", <<"B">>),
                                Step(2, TRUE, "AND", <<"C">>),
                                Leaf(3, FALSE)>>)) @@
        ("B" :> Property("b", <<Leaf(1, TRUE)>>)) @@
        ("C" :> Property("c", <<Leaf(1, TRUE), Leaf(2, TRUE)>>))]

\* A DAG: C is a child of a step of A and of a step of B; B has no required step.
TreeShared ==
    [root |-> "A",
     properties |->
        ("A" :> Property("a", <<Step(1, TRUE, "OR", <<"B", "C">>),
                                Step(2, TRUE, "AND", <<"C">>)>>)) @@
        ("B" :> Property("b", <<Step(1, FALSE, "AND", <<"C">>)>>)) @@
        ("C" :> Property("c", <<Leaf(1, TRUE)>>))]

\* A structure that violates the DAG invariant: A -> B -> A.
TreeCyclic ==
    [root |-> "A",
     properties |->
        ("A" :> Property("a", <<Step(1, TRUE, "AND", <<"B">>)>>)) @@
        ("B" :> Property("b", <<Step(1, TRUE, "AND", <<"A">>), Leaf(2, TRUE)>>))]

TreeChoices == {TreeFlat, TreeNested, TreeShared, TreeCyclic}

\* set(genome_property.id for genome_property in genome_properties_tree)
tree_identifiers(t) == DOMAIN t.properties

required_steps(t, p) ==
    {t.properties[p].steps[k].number :
        k \in {j \in DOMAIN t.properties[p].steps : t.properties[p].steps[j].required}}

(* --------------------------- assignment cache ------------------------- *)

AssignmentCache(sample_name, property_assignments, step_assignments) ==
    [sample_name |-> sample_name,
     property_assignments |-> property_assignments,
     step_assignments |-> step_assignments]

CacheEmpty == AssignmentCache("E", EmptyMap, EmptyMap)

CacheMixed ==
    AssignmentCache("M", EmptyMap,
        ("A" :> (1 :> "YES" @@ 2 :> "NO" @@ 3 :> "YES")) @@
        ("B" :> (1 :> "YES" @@ 2 :> "PARTIAL")) @@
        ("C" :> (1 :> "YES" @@ 2 :> "YES")))

CacheAll ==
    AssignmentCache("Y", EmptyMap,
        ("A" :> (1 :> "YES" @@ 2 :> "YES" @@ 3 :> "YES")) @@
        ("B" :> (1 :> "YES" @@ 2 :> "YES")) @@
        ("C" :> (1 :> "YES" @@ 2 :> "YES")))

\* The root's result was observed directly; nothing is known below it.
CacheRoot == AssignmentCache("R", ("A" :> "YES"), EmptyMap)

\* A cache of another release: it knows D, which no tree defines.
CacheStale ==
    AssignmentCache("S", ("D" :> "YES") @@ ("B" :> "PARTIAL"),
        ("D" :> (1 :> "YES")) @@ ("C" :> (1 :> "PARTIAL")))

CacheChoices == {CacheEmpty, CacheMixed, CacheAll, CacheRoot, CacheStale}

\* The Property identifiers the cache is aware of.
genome_property_identifiers(c) ==
    DOMAIN c.property_assignments \cup DOMAIN c.step_assignments

\* Removes every entry of one identifier.
flush_property_from_cache(c, identifier) ==
    [c EXCEPT
        !.property_assignments = Restrict(@, DOMAIN @ \ {identifier}),
        !.step_assignments = Restrict(@, DOMAIN @ \ {identifier})]

cache_property_assignment(c, p, result) ==
    [c EXCEPT !.property_assignments = (p :> result) @@ @]

cache_step_assignment(c, p, n, result) ==
    [c EXCEPT !.step_assignments =
        IF p \in DOMAIN @ THEN (p :> ((n :> result) @@ @[p])) @@ @
        ELSE (p :> (n :> result)) @@ @]

\* A lookup of an entity absent from the cache gives NO.
get_property_assignment(c, p) ==
    IF p \in DOMAIN c.property_assignments THEN c.property_assignments[p] ELSE "NO"

get_step_assignment(c, p, n) ==
    IF p \in DOMAIN c.step_assignments /\ n \in DOMAIN c.step_assignments[p]
    THEN c.step_assignments[p][n] ELSE "NO"

(* --------------------------- assignment engine ------------------------ *)

\* A threshold that lets one satisfied required step satisfy the property.
calculate_property_assignment_any(values) ==
    IF "YES" \in values THEN "YES"
    ELSE IF values \subseteq {"NO"} THEN "NO"
    ELSE "PARTIAL"

\* YES iff all required steps are YES; NO iff none is above NO (or there is
\* no required step); otherwise PARTIAL.
calculate_property_assignment(values) ==
    IF values = {} THEN "NO"
    ELSE IF values = {"YES"} THEN "YES"
    ELSE IF values = {"NO"} THEN "NO"
    ELSE "PARTIAL"

\* A step over child properties: YES if the children satisfy the step's
\* declared requirement, NO if none does, PARTIAL otherwise.
calculate_step_assignment(requirement, values) ==
    IF values \subseteq {"NO"} THEN "NO"
    ELSE IF requirement = "AND" /\ values = {"YES"} THEN "YES"
    ELSE IF requirement = "OR" /\ "YES" \in values THEN "YES"
    ELSE "PARTIAL"

RECURSIVE assign_genome_property(_, _, _, _)
RECURSIVE assign_genome_property_recompute(_, _, _, _)
RECURSIVE assign_children(_, _, _, _, _)
RECURSIVE assign_steps(_, _, _, _, _)

assign_children(c, t, children, j, visited) ==
    IF j > Len(children) THEN c
    ELSE assign_children(assign_genome_property(c, t, children[j], visited),
                         t, children, j + 1, visited)

assign_steps(c, t, p, k, visited) ==
    IF k > Len(t.properties[p].steps) THEN c
    ELSE LET step == t.properties[p].steps[k]
             children == step.genome_properties
             c1 == IF children # <<>> THEN assign_children(c, t, children, 1, visited)
                   ELSE c
             result ==
                IF children # <<>>
                THEN calculate_step_assignment(step.requirement,
                        {get_property_assignment(c1, children[j]) : j \in DOMAIN children})
                ELSE get_step_assignment(c1, p, step.number)
         IN  assign_steps(cache_step_assignment(c1, p, step.number, result),
                          t, p, k + 1, visited)

\* The engine without its check for a node that already has a result.
assign_genome_property_recompute(c, t, p, visited) ==
    IF p \in visited THEN c
    ELSE LET c1 == assign_steps(c, t, p, 1, visited \cup {p})
             values == {get_step_assignment(c1, p, n) : n \in required_steps(t, p)}
         IN  cache_property_assignment(c1, p, calculate_property_assignment(values))

assign_genome_property(c, t, p, visited) ==
    IF p \in DOMAIN c.property_assignments \/ p \in visited THEN c
    ELSE LET c1 == assign_steps(c, t, p, 1, visited \cup {p})
             values == {get_step_assignment(c1, p, n) : n \in required_steps(t, p)}
         IN  cache_property_assignment(c1, p, calculate_property_assignment(values))

(* ------------------- module functions of results.py ------------------- *)

\* A second reference to the same object instead of a copy.
deepcopy_alias(h, r) == [heap |-> h, ref |-> r]

\* deepcopy(assignment_cache): a new object with the same entries.
deepcopy(h, r) == [heap |-> Append(h, h[r]), ref |-> Len(h) + 1]

RECURSIVE flush_each(_, _, _)
flush_each(h, r, identifiers) ==
    IF identifiers = {} THEN h
    ELSE LET identifier == CHOOSE x \in identifiers : TRUE
         IN  flush_each([h EXCEPT ![r] = flush_property_from_cache(@, identifier)],
                        r, identifiers \ {identifier})

symmetric_difference(S, T) == (S \ T) \cup (T \ S)

\* The flush loop, run on the copy.
flush_unshared(sanitized, unshared_identifiers) ==
    [heap |-> flush_each(sanitized.heap, sanitized.ref, unshared_identifiers),
     ref |-> sanitized.ref]

\* A synchronisation that drops only what the tree has and the cache lacks.
create_synchronized_assignment_cache_difference(h, r, t) ==
    flush_unshared(deepcopy(h, r),
                   tree_identifiers(t) \ genome_property_identifiers(h[r]))

create_synchronized_assignment_cache(h, r, t) ==
    flush_unshared(deepcopy(h, r),
                   symmetric_difference(tree_identifiers(t),
                                        genome_property_identifiers(h[r])))

\* assign_genome_property(assignment_cache, tree.root); the cache is changed
\* in place and returned.
bootstrap_assignments(h, r, t) ==
    [heap |-> [h EXCEPT ![r] = assign_genome_property(@, t, t.root, {})], ref |-> r]

\* create_step_table_rows: one (identifier, step number, result) row per step.
create_step_table_rows(step_assignments) ==
    UNION {{<<p, n, step_assignments[p][n]>> : n \in DOMAIN step_assignments[p]} :
            p \in DOMAIN step_assignments}

EmptyTable == [columns |-> <<>>, index |-> {}, data |-> EmptyMap]

\* A one-column data frame over the keys of a mapping.
DataFrame(column, mapping) ==
    [columns |-> <<column>>, index |-> DOMAIN mapping,
     data |-> [k \in DOMAIN mapping |-> <<mapping[k]>>]]

\* The step table: one row per (identifier, step number) of the rows.
step_table_of(rows) ==
    DataFrame("Step_Result",
        [k \in {<<row[1], row[2]>> : row \in rows} |->
            (CHOOSE row \in rows : row[1] = k[1] /\ row[2] = k[2])[3]])

\* The two tables of a bootstrapped cache.
assignment_tables_of(h, assignments) ==
    [heap |-> h,
     property_table |-> DataFrame("Property_Result", assignments.property_assignments),
     step_table |-> step_table_of(create_step_table_rows(assignments.step_assignments))]

bootstrapped_tables(bootstrapped) ==
    assignment_tables_of(bootstrapped.heap, bootstrapped.heap[bootstrapped.ref])

bootstrap_sanitized(sanitized, t) ==
    bootstrap_assignments(sanitized.heap, sanitized.ref, t)

create_assignment_tables(h, t, r) ==
    bootstrapped_tables(
        bootstrap_sanitized(create_synchronized_assignment_cache(h, r, t), t))

(* ------------------------------- pandas ------------------------------- *)

\* The cells of row k of a frame, NaN where the frame has no such row.
reindexed(frame, k) ==
    IF k \in frame.index THEN frame.data[k] ELSE [i \in 1..Len(frame.columns) |-> NaN]

\* A join that puts the later table's columns first.
concat_pair_swapped(a, b) ==
    [columns |-> b.columns \o a.columns,
     index |-> a.index \cup b.index,
     data |-> [k \in a.index \cup b.index |-> reindexed(b, k) \o reindexed(a, k)]]

\* pd.concat([a, b], axis=1): the outer join of the two indexes.
concat_pair(a, b) ==
    [columns |-> a.columns \o b.columns,
     index |-> a.index \cup b.index,
     data |-> [k \in a.index \cup b.index |-> reindexed(a, k) \o reindexed(b, k)]]

RECURSIVE concat(_)
concat(tables) ==
    IF Len(tables) = 1 THEN tables[1]
    ELSE concat_pair(concat(SubSeq(tables, 1, Len(tables) - 1)), tables[Len(tables)])

\* pd.Series.nunique(): the number of distinct values, missing values left out.
nunique(series) == Cardinality(Range(series) \ {NaN})

\* pd.Series.unique()[0]: the first value in order of appearance.
first_unique(series) == series[1]

drop(frame, keys) ==
    [columns |-> frame.columns,
     index |-> frame.index \ keys,
     data |-> Restrict(frame.data, frame.index \ keys)]

(* ----------------------- GenomePropertiesResults ---------------------- *)

NoObject ==
    [status |-> "none", sample_names |-> <<>>,
     property_results |-> EmptyTable, step_results |-> EmptyTable]

\* One pass of the loop of __init__: the sample name and the two tables of
\* one cache are appended to the lists.
append_tables(lists, sample_name, tables) ==
    [heap |-> tables.heap,
     sample_names |-> Append(lists.sample_names, sample_name),
     property_tables |-> Append(lists.property_tables, tables.property_table),
     step_tables |-> Append(lists.step_tables, tables.step_table)]

RECURSIVE init_loop(_, _, _, _)
\* The loop of __init__ over the caches i..n, in order.
init_loop(lists, t, i, n) ==
    IF i > n THEN lists
    ELSE init_loop(append_tables(lists, lists.heap[i].sample_name,
                                 create_assignment_tables(lists.heap, t, i)),
                   t, i + 1, n)

\* The combined tables, with the sample names as their columns.
combined(lists) ==
    [heap |-> lists.heap,
     object |->
        [status |-> "ok",
         sample_names |-> lists.sample_names,
         property_results |->
            [concat(lists.property_tables) EXCEPT !.columns = lists.sample_names],
         step_results |->
            [concat(lists.step_tables) EXCEPT !.columns = lists.sample_names]]]

\* GenomePropertiesResults(*caches, genome_properties_tree=tree) over the
\* first n caches of the heap. pd.concat of no table raises ValueError.
new_results(h, t, n) ==
    IF n = 0 THEN [heap |-> h, object |-> [NoObject EXCEPT !.status = "ValueError"]]
    ELSE combined(init_loop([heap |-> h, sample_names |-> <<>>,
                             property_tables |-> <<>>, step_tables |-> <<>>],
                            t, 1, n))

\* A default vector sized by the rows of the table instead of its columns.
no_vector_per_row(frame) == [i \in 1..Cardinality(frame.index) |-> "NO"]

no_vector(frame) == [i \in 1..Len(frame.columns) |-> "NO"]

get_property_result_rows(o, genome_property_id) ==
    IF genome_property_id \in o.property_results.index
    THEN o.property_results.data[genome_property_id]
    ELSE no_vector_per_row(o.property_results)

get_property_result(o, genome_property_id) ==
    IF genome_property_id \in o.property_results.index
    THEN o.property_results.data[genome_property_id]
    ELSE no_vector(o.property_results)

get_step_result(o, genome_property_id, step_number) ==
    LET step_numbers == {k[2] : k \in {x \in o.step_results.index : x[1] = genome_property_id}}
    IN  IF step_numbers = {} THEN no_vector(o.step_results)
        ELSE IF step_number \notin step_numbers THEN no_vector(o.step_results)
        ELSE o.step_results.data[<<genome_property_id, step_number>>]

remove_results_with_shared_assignments(results, only_drop_no_assignments) ==
    LET single_value_columns == {k \in results.index : nunique(results.data[k]) = 1}
        results_to_drop ==
            IF only_drop_no_assignments
            THEN {k \in single_value_columns : first_unique(results.data[k]) = "NO"}
            ELSE single_value_columns
    IN  drop(results, results_to_drop)

differing_property_results(o) ==
    remove_results_with_shared_assignments(o.property_results, FALSE)

differing_step_results(o) ==
    remove_results_with_shared_assignments(o.step_results, FALSE)

supported_property_results(o) ==
    remove_results_with_shared_assignments(o.property_results, TRUE)

supported_step_results(o) ==
    remove_results_with_shared_assignments(o.step_results, TRUE)

RecursionError == [error |-> TRUE, value |-> <<>>]

RECURSIVE generate_json_tree(_, _, _, _)
RECURSIVE json_children(_, _, _, _, _)
RECURSIVE json_child_properties(_, _, _, _, _)

\* The inner loop of generate_json_tree over the child properties of a step.
json_child_properties(o, t, children, j, depth) ==
    IF j > Len(children) THEN [error |-> FALSE, value |-> <<>>]
    ELSE LET child == generate_json_tree(o, t, children[j], depth + 1)
             rest == json_child_properties(o, t, children, j + 1, depth)
         IN  IF child.error \/ rest.error THEN RecursionError
             ELSE [error |-> FALSE, value |-> child.value \o rest.value]

\* The outer loop of generate_json_tree over the steps of a property.
json_children(o, t, p, k, depth) ==
    IF k > Len(t.properties[p].steps) THEN [error |-> FALSE, value |-> <<>>]
    ELSE LET step == t.properties[p].steps[k]
             step_child_properties == step.genome_properties
             here ==
                IF step_child_properties # <<>>
                THEN json_child_properties(o, t, step_child_properties, 1, depth)
                ELSE [error |-> FALSE,
                      value |-> <<[step_id |-> step.number, name |-> step.name,
                                   enabled |-> FALSE,
                                   result |-> get_step_result(o, p, step.number)]>>]
             rest == IF here.error THEN RecursionError
                     ELSE json_children(o, t, p, k + 1, depth)
         IN  IF here.error \/ rest.error THEN RecursionError
             ELSE [error |-> FALSE, value |-> here.value \o rest.value]

\* generate_json_tree at call depth `depth`; a call nested deeper than the
\* recursion limit raises RecursionError, which no frame catches.
generate_json_tree(o, t, p, depth) ==
    IF depth > RecursionLimit THEN RecursionError
    ELSE LET children == json_children(o, t, p, 1, depth)
         IN  IF children.error THEN RecursionError
             ELSE [error |-> FALSE,
                   value |-> <<[property_id |-> p, name |-> t.properties[p].name,
                                enabled |-> FALSE,
                                result |-> get_property_result(o, p),
                                children |-> children.value]>>]

(* ------------------------------ the machine --------------------------- *)

QueryIdentifiers == {"A", "B", "C", "D"}

QueryStepNumbers == {1, 2, 3}

\* The last call made and what it returned.
NoReturn ==
    [op |-> "none", key |-> <<>>, vec |-> <<>>, table |-> EmptyTable,
     ref |-> 0, json |-> <<>>, error |-> "none"]

Init ==
    /\ tree \in TreeChoices
    /\ inputs \in 0..MaxSamples
    /\ inputs <= MaxHeap
    /\ heap \in [1..inputs -> CacheChoices]
    /\ obj = NoObject
    /\ ret = NoReturn

New ==
    /\ obj.status = "none"
    /\ \E made \in {new_results(heap, tree, inputs)} :
        /\ obj' = made.object
        /\ heap' = SubSeq(made.heap, 1, Len(heap))
    /\ ret' = [NoReturn EXCEPT !.op = "__init__",
                 !.error = IF obj'.status = "ok" THEN "none" ELSE obj'.status]
    /\ UNCHANGED <<tree, inputs>>

GetPropertyResult(id) ==
    /\ obj.status = "ok"
    /\ ret' = [NoReturn EXCEPT !.op = "get_property_result", !.key = <<id>>,
                 !.vec = get_property_result(obj, id)]
    /\ UNCHANGED <<tree, heap, inputs, obj>>

GetStepResult(id, n) ==
    /\ obj.status = "ok"
    /\ ret' = [NoReturn EXCEPT !.op = "get_step_result", !.key = <<id, n>>,
                 !.vec = get_step_result(obj, id, n)]
    /\ UNCHANGED <<tree, heap, inputs, obj>>

DifferingPropertyResults ==
    /\ obj.status = "ok"
    /\ ret' = [NoReturn EXCEPT !.op = "differing_property_results",
                 !.table = differing_property_results(obj)]
    /\ UNCHANGED <<tree, heap, inputs, obj>>

DifferingStepResults ==
    /\ obj.status = "ok"
    /\ ret' = [NoReturn EXCEPT !.op = "differing_step_results",
                 !.table = differing_step_results(obj)]
    /\ UNCHANGED <<tree, heap, inputs, obj>>

SupportedPropertyResults ==
    /\ obj.status = "ok"
    /\ ret' = [NoReturn EXCEPT !.op = "supported_property_results",
                 !.table = supported_property_results(obj)]
    /\ UNCHANGED <<tree, heap, inputs, obj>>

SupportedStepResults ==
    /\ obj.status = "ok"
    /\ ret' = [NoReturn EXCEPT !.op = "supported_step_results",
                 !.table = supported_step_results(obj)]
    /\ UNCHANGED <<tree, heap, inputs, obj>>

GenerateJsonTree ==
    /\ obj.status = "ok"
    /\ \E made \in {generate_json_tree(obj, tree, tree.root, 1)} :
        ret' = [NoReturn EXCEPT !.op = "generate_json_tree",
                  !.json = made.value,
                  !.error = IF made.error THEN "RecursionError" ELSE "none"]
    /\ UNCHANGED <<tree, heap, inputs, obj>>

CreateSynchronizedAssignmentCache(r) ==
    /\ Len(heap) < MaxHeap
    /\ \E made \in {create_synchronized_assignment_cache(heap, r, tree)} :
        /\ heap' = made.heap
        /\ ret' = [NoReturn EXCEPT !.op = "create_synchronized_assignment_cache",
                     !.key = <<r>>, !.ref = made.ref]
    /\ UNCHANGED <<tree, inputs, obj>>

BootstrapAssignments(r) ==
    /\ \E made \in {bootstrap_assignments(heap, r, tree)} :
        /\ heap' = made.heap
        /\ ret' = [NoReturn EXCEPT !.op = "bootstrap_assignments",
                     !.key = <<r>>, !.ref = made.ref]
    /\ UNCHANGED <<tree, inputs, obj>>

Next ==
    \/ New
    \/ \E id \in QueryIdentifiers : GetPropertyResult(id)
    \/ \E id \in QueryIdentifiers, n \in QueryStepNumbers : GetStepResult(id, n)
    \/ DifferingPropertyResults
    \/ DifferingStepResults
    \/ SupportedPropertyResults
    \/ SupportedStepResults
    \/ GenerateJsonTree
    \/ \E r \in 1..Len(heap) : CreateSynchronizedAssignmentCache(r)
    \/ \E r \in 1..Len(heap) : BootstrapAssignments(r)

Spec == Init /\ [][Next]_vars

(* ------------------------------ properties ---------------------------- *)

SampleColumns == 1..inputs

Constructed == obj.status = "ok"

JustConstructed == ret.op = "__init__" /\ Constructed

AllEqual(series) == \A i, j \in DOMAIN series : series[i] = series[j]

\* C1: the cache create_synchronized_assignment_cache returns holds entries
\* only for identifiers that are both in the tree and in the given cache (none
\* of the symmetric difference survives), and every entry of a shared
\* identifier is kept as it was.
C1_SynchronizedCacheIsIntersection ==
    ret.op = "create_synchronized_assignment_cache" =>
        LET given == heap[ret.key[1]]
            sanitized == heap[ret.ref]
            T == tree_identifiers(tree)
            C == genome_property_identifiers(given)
        IN  /\ genome_property_identifiers(sanitized) \subseteq T \cap C
            /\ genome_property_identifiers(sanitized) \cap symmetric_difference(T, C) = {}
            /\ sanitized.property_assignments =
                 Restrict(given.property_assignments,
                          DOMAIN given.property_assignments \cap (T \cap C))
            /\ sanitized.step_assignments =
                 Restrict(given.step_assignments,
                          DOMAIN given.step_assignments \cap (T \cap C))

\* The spec's example: tree {A,B,C}, cache {B,C,D}, synchronized to {B,C}.
C1_Witness ==
    /\ ret.op = "create_synchronized_assignment_cache"
    /\ tree_identifiers(tree) = {"A", "B", "C"}
    /\ genome_property_identifiers(heap[ret.key[1]]) = {"B", "C", "D"}
    /\ genome_property_identifiers(heap[ret.ref]) = {"B", "C"}

\* C2: every cell of the combined property table and of the combined step
\* table holds a result state; an entity one sample's cache lacks has NO in
\* that sample's column.
C2_EveryCellIsAResultState ==
    Constructed =>
        /\ \A k \in obj.property_results.index : \A i \in SampleColumns :
                obj.property_results.data[k][i] \in Results
        /\ \A k \in obj.step_results.index : \A i \in SampleColumns :
                obj.step_results.data[k][i] \in Results

\* C3: get_property_result and get_step_result return the row's per-sample
\* values for a key of the table, and for any other key one NO per sample.
C3_LookupDefaultsToNo ==
    /\ ret.op = "get_property_result" =>
            IF ret.key[1] \in obj.property_results.index
            THEN ret.vec = obj.property_results.data[ret.key[1]]
            ELSE ret.vec = [i \in SampleColumns |-> "NO"]
    /\ ret.op = "get_step_result" =>
            IF ret.key \in obj.step_results.index
            THEN ret.vec = obj.step_results.data[ret.key]
            ELSE ret.vec = [i \in SampleColumns |-> "NO"]

C3_Witness ==
    /\ ret.op = "get_property_result"
    /\ ret.key[1] \notin obj.property_results.index
    /\ inputs = 2
    /\ ret.vec = <<"NO", "NO">>

\* C4: the differential filter keeps exactly the rows whose sample values
\* are not all identical, with their values unchanged.
C4_DifferingKeepsUnequalRows ==
    /\ ret.op = "differing_property_results" =>
            ret.table = drop(obj.property_results,
                {k \in obj.property_results.index : AllEqual(obj.property_results.data[k])})
    /\ ret.op = "differing_step_results" =>
            ret.table = drop(obj.step_results,
                {k \in obj.step_results.index : AllEqual(obj.step_results.data[k])})

\* C5: the supported-only filter keeps exactly the rows whose sample values
\* are not all NO, with their values unchanged.
C5_SupportedKeepsRowsNotAllNo ==
    /\ ret.op = "supported_property_results" =>
            ret.table = drop(obj.property_results,
                {k \in obj.property_results.index :
                    \A i \in SampleColumns : obj.property_results.data[k][i] = "NO"})
    /\ ret.op = "supported_step_results" =>
            ret.table = drop(obj.step_results,
                {k \in obj.step_results.index :
                    \A i \in SampleColumns : obj.step_results.data[k][i] = "NO"})

\* The results of the required steps of property p in sample column i.
RequiredStepResults(p, i) ==
    {obj.step_results.data[<<p, n>>][i] : n \in required_steps(tree, p)}

\* The properties the engine computed for sample i: in the tree, without a
\* result in the given cache, with a result in the table.
Computed(i) ==
    {p \in tree_identifiers(tree) \cap obj.property_results.index :
        /\ p \notin DOMAIN heap[i].property_assignments
        /\ obj.property_results.data[p][i] # NaN}

\* C6: a property with at least one required step that the engine computes
\* is YES iff every required step is YES, NO iff every required step is NO,
\* and PARTIAL for every other mix; steps not required do not count.
C6_RequiredStepsThreshold ==
    JustConstructed =>
        \A i \in SampleColumns : \A p \in Computed(i) :
            required_steps(tree, p) # {} =>
                LET result == obj.property_results.data[p][i]
                    values == RequiredStepResults(p, i)
                IN  /\ result = "YES" <=> values = {"YES"}
                    /\ result = "NO" <=> values = {"NO"}
                    /\ result = "PARTIAL" <=> values \notin {{"YES"}, {"NO"}}

\* Three required steps, two YES and one NO, give PARTIAL.
C6_Witness ==
    /\ JustConstructed
    /\ tree = TreeFlat
    /\ \E i \in SampleColumns :
        /\ "A" \in Computed(i)
        /\ obj.property_results.data["A"][i] = "PARTIAL"
        /\ RequiredStepResults("A", i) = {"YES", "NO"}

\* C7: running bootstrap_assignments again over a cache it has populated
\* changes no property result and no step result.
C7_BootstrapIsIdempotent ==
    ret.op = "bootstrap_assignments" =>
        bootstrap_assignments(heap, ret.ref, tree).heap = heap

C7_Witness ==
    /\ ret.op = "bootstrap_assignments"
    /\ Cardinality(tree_identifiers(tree)) >= 2
    /\ tree_identifiers(tree) \subseteq DOMAIN heap[ret.ref].property_assignments
    /\ "PARTIAL" \in Range(heap[ret.ref].property_assignments)

\* C8: constructing GenomePropertiesResults and calling
\* create_synchronized_assignment_cache leave every cache that existed before
\* the call with the entries it had.
C8_CallerCachesUnchanged ==
    [][ret'.op \in {"__init__", "create_synchronized_assignment_cache"} =>
            \A r \in DOMAIN heap : heap'[r] = heap[r]]_vars

\* A construction whose synchronisation had something to flush and whose
\* bootstrap had something to add, with the given cache still as it was.
C8_Witness ==
    /\ JustConstructed
    /\ \E i \in SampleColumns :
        /\ "D" \in genome_property_identifiers(heap[i])
        /\ "A" \notin DOMAIN heap[i].property_assignments
        /\ obj.property_results.data["A"][i] \in Results

\* C9: both tables have the sample names, in the order the caches were
\* given, as their columns, and column i holds the results of the i-th cache.
C9_ColumnsFollowSampleOrder ==
    JustConstructed =>
        /\ obj.sample_names = [i \in SampleColumns |-> heap[i].sample_name]
        /\ obj.property_results.columns = obj.sample_names
        /\ obj.step_results.columns = obj.sample_names
        /\ \A i \in SampleColumns :
            LET tables == create_assignment_tables(heap, tree, i)
            IN  /\ tables.property_table.index \subseteq obj.property_results.index
                /\ tables.step_table.index \subseteq obj.step_results.index
                /\ \A k \in obj.property_results.index :
                     /\ Len(obj.property_results.data[k]) = inputs
                     /\ obj.property_results.data[k][i]
                            = reindexed(tables.property_table, k)[1]
                /\ \A k \in obj.step_results.index :
                     /\ Len(obj.step_results.data[k]) = inputs
                     /\ obj.step_results.data[k][i] = reindexed(tables.step_table, k)[1]

C9_Witness ==
    /\ JustConstructed
    /\ inputs = 2
    /\ heap[1].sample_name # heap[2].sample_name
    /\ \E k \in obj.property_results.index :
        obj.property_results.data[k][1] # obj.property_results.data[k][2]

\* C10: the walk of generate_json_tree from the root completes on every
\* finite structure, a cyclic one included.
C10_ExportWalkCompletes ==
    ret.op = "generate_json_tree" => ret.error = "none"

====
